---- MODULE Spec2Model ----
(***************************************************************************)
(* A model of the MyAppAssistant COSMIC desktop client                     *)
(* (src/myappassistant-cosmic/src): the HTTP client's five calls and their *)
(* error mapping, the application's update function with its five page     *)
(* update functions, the commands (futures) they start and the messages    *)
(* those deliver on completion, and the settings store.                    *)
(*                                                                         *)
(* Text is a sequence of one-character strings, so that trimming,          *)
(* prefixing and decimal rendering are computed the way the code does.     *)
(***************************************************************************)
EXTENDS Integers, Sequences, FiniteSets, TLC

\* ------------------------------------------------------------------ bounds

\* Most entries the chat transcript holds before the user stops sending.
MaxTranscript == 4
\* Most commands (futures) in flight at once.
MaxInflight == 3
\* Most user-originated messages in one run of the whole application.
MaxEvents == 2
\* Most user-originated messages in one run of the chat page with navigation
\* and configuration changes.
MaxChatEvents == 3

\* The transcript's length in the runs that fill the context window.
MaxContext == 7

\* ------------------------------------------------------------------- text

\* Option: None, and Some(v)
None == <<>>
Some(v) == <<v>>

\* char::is_whitespace, on the characters the model types
IsWhitespace(c) == c \in {" ", "\t", "\n"}

RECURSIVE TrimStart(_)
\* str::trim_start
TrimStart(s) ==
    IF s = <<>> THEN <<>>
    ELSE IF IsWhitespace(Head(s)) THEN TrimStart(Tail(s))
    ELSE s

RECURSIVE TrimEnd(_)
\* str::trim_end
TrimEnd(s) ==
    IF s = <<>> THEN <<>>
    ELSE IF IsWhitespace(s[Len(s)]) THEN TrimEnd(SubSeq(s, 1, Len(s) - 1))
    ELSE s

\* str::trim
Trim(s) == TrimEnd(TrimStart(s))

\* one decimal digit as a character
DigitChar(d) == <<"0", "1", "2", "3", "4", "5", "6", "7", "8", "9">>[d + 1]

RECURSIVE Digits(_)
\* Display of an unsigned integer ({0} on a u16)
Digits(n) ==
    IF n < 10 THEN <<DigitChar(n)>>
    ELSE Digits(n \div 10) \o <<DigitChar(n % 10)>>

\* ------------------------------------------------------------ api/error.rs

RequestFailed(s) == [kind |-> "RequestFailed", text |-> s]
ParseFailed(s) == [kind |-> "ParseFailed", text |-> s]
HttpError(code) == [kind |-> "HttpError", code |-> code]

\* The six variants the enum declares.
ApiErrorKinds ==
    {"RequestFailed", "ParseFailed", "HttpError", "Timeout",
     "AuthenticationFailed", "InvalidRequest"}

\* #[error(...)]: the Display text of an ApiError (e.to_string())
ApiErrorText(e) ==
    CASE e.kind = "RequestFailed" ->
           <<"N","e","t","w","o","r","k"," ","r","e","q","u","e","s","t"," ",
             "f","a","i","l","e","d",":"," ">> \o e.text
      [] e.kind = "ParseFailed" ->
           <<"F","a","i","l","e","d"," ","t","o"," ","p","a","r","s","e"," ",
             "r","e","s","p","o","n","s","e",":"," ">> \o e.text
      [] e.kind = "HttpError" ->
           <<"H","T","T","P"," ","e","r","r","o","r",":"," ">> \o Digits(e.code)
      [] e.kind = "Timeout" ->
           <<"R","e","q","u","e","s","t"," ","t","i","m","e","o","u","t">>
      [] e.kind = "AuthenticationFailed" ->
           <<"A","u","t","h","e","n","t","i","c","a","t","i","o","n"," ",
             "f","a","i","l","e","d">>
      [] e.kind = "InvalidRequest" ->
           <<"I","n","v","a","l","i","d"," ","r","e","q","u","e","s","t",":"," ">>
             \o e.text

Ok(v) == [ok |-> TRUE, value |-> v]
Err(e) == [ok |-> FALSE, err |-> e]

\* ----------------------------------------------------------- the backend

\* What one request meets.  send: the outcome of .send().await ("ok" is a
\* response with a status line; "connect" is a transport failure; "timeout"
\* is the client's 30 s timeout expiring before the response).  body: what
\* reading the body meets: "unreadable" (the read fails, or the timeout
\* expires during it), "text" (readable, but not JSON of the type the call
\* decodes), "json" (readable, and JSON of that type).
SendOutcomes == {"ok", "connect", "timeout"}
BodyKinds == {"unreadable", "text", "json"}
\* The text reqwest gives for a failure (reqwest::Error's Display); only its
\* being carried into the ApiError matters here.
ReqwestErrorText(what) ==
    CASE what = "connect" -> <<"r","e","f","u","s","e","d">>
      [] what = "timeout" -> <<"t","i","m","e","d"," ","o","u","t">>
      [] what = "unreadable" -> <<"e","o","f">>
      [] what = "text" -> <<"b","a","d"," ","j","s","o","n">>

SendFailures == {[send |-> s] : s \in SendOutcomes \ {"ok"}}

\* The responses with status in S whose body, when decodable, carries one of
\* the values in V; T are the raw texts of a readable body.
Answers(S, T, V) ==
    {[send |-> "ok", status |-> st, body |-> [kind |-> "unreadable"]] :
        st \in S}
    \cup {[send |-> "ok", status |-> st, body |-> [kind |-> "text", text |-> t]] :
        st \in S, t \in T}
    \cup {[send |-> "ok", status |-> st,
           body |-> [kind |-> "json", text |-> v[1], value |-> v[2]]] :
        st \in S, v \in V}

\* StatusCode::is_success
is_success(status) == status >= 200 /\ status <= 299

\* Response::json: the body read and decoded as the call's type
ResponseJson(body) ==
    IF body.kind = "json" THEN Ok(body.value)
    ELSE Err(ReqwestErrorText(body.kind))

\* Response::text: the body read as text, whatever it holds
ResponseText(body) ==
    IF body.kind = "unreadable" THEN Err(ReqwestErrorText(body.kind))
    ELSE Ok(body.text)

\* ----------------------------------------------------------- api/client.rs

\* get_pantry_products, had it taken every status below 500 for a success
get_pantry_products_5xx(resp) ==
    IF resp.send # "ok" THEN Err(RequestFailed(ReqwestErrorText(resp.send)))
    ELSE IF resp.status < 500
    THEN LET products == ResponseJson(resp.body)
         IN  IF products.ok THEN Ok(products.value)
             ELSE Err(ParseFailed(products.err))
    ELSE Err(HttpError(resp.status))

get_pantry_products(resp) ==
    IF resp.send # "ok" THEN Err(RequestFailed(ReqwestErrorText(resp.send)))
    ELSE IF is_success(resp.status)
    THEN LET products == ResponseJson(resp.body)
         IN  IF products.ok THEN Ok(products.value)
             ELSE Err(ParseFailed(products.err))
    ELSE Err(HttpError(resp.status))

send_chat_message(resp) ==
    IF resp.send # "ok" THEN Err(RequestFailed(ReqwestErrorText(resp.send)))
    ELSE IF is_success(resp.status)
    THEN LET text == ResponseText(resp.body)
         IN  IF text.ok THEN Ok(text.value)
             ELSE Err(ParseFailed(text.err))
    ELSE Err(HttpError(resp.status))

send_memory_chat_message(resp) ==
    IF resp.send # "ok" THEN Err(RequestFailed(ReqwestErrorText(resp.send)))
    ELSE IF is_success(resp.status)
    THEN LET text == ResponseText(resp.body)
         IN  IF text.ok THEN Ok(text.value)
             ELSE Err(ParseFailed(text.err))
    ELSE Err(HttpError(resp.status))

upload_receipt(resp) ==
    IF resp.send # "ok" THEN Err(RequestFailed(ReqwestErrorText(resp.send)))
    ELSE IF is_success(resp.status)
    THEN LET ocr_result == ResponseJson(resp.body)
         IN  IF ocr_result.ok THEN Ok(ocr_result.value)
             ELSE Err(ParseFailed(ocr_result.err))
    ELSE Err(HttpError(resp.status))

get_weather(resp) ==
    IF resp.send # "ok" THEN Err(RequestFailed(ReqwestErrorText(resp.send)))
    ELSE IF is_success(resp.status)
    THEN LET weather == ResponseJson(resp.body)
         IN  IF weather.ok THEN Ok(weather.value)
             ELSE Err(ParseFailed(weather.err))
    ELSE Err(HttpError(resp.status))

\* ---------------------------------------------------------------- config.rs

ThemeModes == {"Light", "Dark", "System"}
Urls == {"http://localhost:8000", "http://backend:9000"}
Dirs == {"/tmp/myappassistant/ocr", "/home/user/receipts"}

\* impl Default for AppSettings
AppSettingsDefault ==
    [backend_url |-> "http://localhost:8000",
     theme_mode |-> "System",
     notifications_enabled |-> TRUE,
     auto_sync |-> TRUE,
     ocr_upload_dir |-> "/tmp/myappassistant/ocr"]

\* A second value of AppSettings, as another run or another process left it.
AppSettingsOther ==
    [backend_url |-> "http://backend:9000",
     theme_mode |-> "Dark",
     notifications_enabled |-> FALSE,
     auto_sync |-> TRUE,
     ocr_upload_dir |-> "/tmp/myappassistant/ocr"]

SettingsFields ==
    <<"backend_url", "theme_mode", "notifications_enabled", "auto_sync",
      "ocr_upload_dir">>

\* Serialize for AppSettings: the entry the config store keeps, one
\* (field name, value) pair per field, in declaration order
Serialize(s) == [i \in 1..Len(SettingsFields) |-> <<SettingsFields[i], s[SettingsFields[i]]>>]

\* The value an entry holds under a field name.
EntryField(entry, name) ==
    LET i == CHOOSE j \in 1..Len(entry) : entry[j][1] = name IN entry[i][2]

\* Deserialize for AppSettings
Deserialize(entry) ==
    [backend_url |-> EntryField(entry, "backend_url"),
     theme_mode |-> EntryField(entry, "theme_mode"),
     notifications_enabled |-> EntryField(entry, "notifications_enabled"),
     auto_sync |-> EntryField(entry, "auto_sync"),
     ocr_upload_dir |-> EntryField(entry, "ocr_upload_dir")]

\* AppSettings::load on a store: Err when the store cannot be opened or holds
\* no entry
AppSettingsLoad(store) ==
    IF store = None THEN Err("no entry") ELSE Ok(Deserialize(store[1]))

\* AppSettings::save on a store whose write meets io ("ok" or "error"): the
\* result and the store afterwards
AppSettingsSave(s, store, io) ==
    IF io = "ok" THEN [result |-> Ok("unit"), store |-> Some(Serialize(s))]
    ELSE [result |-> Err("io"), store |-> store]

\* Result::unwrap_or_default
unwrap_or_default(r) == IF r.ok THEN r.value ELSE AppSettingsDefault

\* --------------------------------------------------------------- commands

\* A command is a future the runtime drives and the closure that turns its
\* output into a message.  fut names the future, to the closure; a chat
\* request also carries what it sends.
HttpFutures ==
    {"send_chat_message", "get_weather", "get_food_items", "upload_receipt"}

IsHttp(c) == c.fut \in HttpFutures

RECURSIVE HttpCount(_)
\* The HTTP requests among a sequence of commands.
HttpCount(cmds) ==
    IF cmds = <<>> THEN 0
    ELSE (IF IsHttp(Head(cmds)) THEN 1 ELSE 0) + HttpCount(Tail(cmds))

\* app::Command::none()
CommandNone == <<>>

\* app::Command::perform(future, closure)
CommandPerform(c) == <<c>>

\* ------------------------------------------------------- ui/pages/chat.rs

\* impl Default for chat::State
ChatStateDefault == [input_text |-> <<>>, messages |-> <<>>, loading |-> FALSE]

\* The last n elements of a sequence, in order (iter().rev().take(n) ...rev()).
LastN(s, n) == IF Len(s) <= n THEN s ELSE SubSeq(s, Len(s) - n + 1, Len(s))

RECURSIVE Join(_, _)
\* [String]::join(sep)
Join(lines, sep) ==
    IF lines = <<>> THEN <<>>
    ELSE IF Len(lines) = 1 THEN lines[1]
    ELSE lines[1] \o sep \o Join(Tail(lines), sep)

\* The closure at chat.rs:78
ContextLine(msg) ==
    IF msg.is_user THEN <<"U","s","e","r",":"," ">> \o msg.content
    ELSE <<"A","s","s","i","s","t","a","n","t",":"," ">> \o msg.content

\* The context, had it been built from the whole transcript (no take(5))
ChatContext_whole_transcript(messages) ==
    IF Len(messages) > 1
    THEN Some(Join([i \in 1..Len(messages) |-> ContextLine(messages[i])],
                   <<"\n">>))
    ELSE None

\* chat.rs:70, the context built after the user entry is pushed
ChatContext(messages) ==
    IF Len(messages) > 1
    THEN LET context_messages == LastN(messages, 5)
         IN  Some(Join([i \in 1..Len(context_messages) |->
                      ContextLine(context_messages[i])], <<"\n">>))
    ELSE None

\* The closure at chat.rs:97, had it passed the error text on without the
\* "Error: " prefix
ChatResultMessage_no_prefix(result, agent) ==
    IF result.ok
    THEN [t |-> "MessageReceived",
          response |-> [response |-> result.value, agent_used |-> agent]]
    ELSE [t |-> "MessageReceived",
          response |-> [response |-> ApiErrorText(result.err),
                        agent_used |-> <<"e","r","r","o","r">>]]

\* The closure at chat.rs:97: the message a finished chat request delivers.
\* The success value reaches MessageReceived as a ChatResponse: its text is
\* the body the client read and its agent the one the backend names.
ChatResultMessage(result, agent) ==
    IF result.ok
    THEN [t |-> "MessageReceived",
          response |-> [response |-> result.value, agent_used |-> agent]]
    ELSE [t |-> "MessageReceived",
          response |-> [response |-> <<"E","r","r","o","r",":"," ">>
                                       \o ApiErrorText(result.err),
                        agent_used |-> <<"e","r","r","o","r">>]]

\* ChatMessage::SendMessage, had it tested the input with is_empty() alone
ChatSendMessage_no_trim(state, api_client) ==
    IF state.input_text = <<>> \/ state.loading
    THEN [state |-> state, cmds |-> CommandNone]
    ELSE LET user_message ==
                 [content |-> state.input_text, is_user |-> TRUE, agent |-> None]
             messages == Append(state.messages, user_message)
         IN  [state |-> [input_text |-> <<>>, messages |-> messages,
                         loading |-> TRUE],
              cmds |-> CommandPerform(
                  [fut |-> "send_chat_message", to |-> "chat",
                   client |-> api_client,
                   prompt |-> state.input_text,
                   model |-> ChatContext(messages)])]

\* ChatMessage::SendMessage, had it kept and sent the trimmed input
ChatSendMessage_trimmed(state, api_client) ==
    IF Trim(state.input_text) = <<>> \/ state.loading
    THEN [state |-> state, cmds |-> CommandNone]
    ELSE LET message_text == Trim(state.input_text)
             user_message ==
                 [content |-> message_text, is_user |-> TRUE, agent |-> None]
             messages == Append(state.messages, user_message)
         IN  [state |-> [input_text |-> <<>>, messages |-> messages,
                         loading |-> TRUE],
              cmds |-> CommandPerform(
                  [fut |-> "send_chat_message", to |-> "chat",
                   client |-> api_client,
                   prompt |-> message_text,
                   model |-> ChatContext(messages)])]

\* ChatMessage::SendMessage
ChatSendMessage(state, api_client) ==
    IF Trim(state.input_text) = <<>> \/ state.loading
    THEN [state |-> state, cmds |-> CommandNone]
    ELSE LET user_message ==
                 [content |-> state.input_text, is_user |-> TRUE, agent |-> None]
             messages == Append(state.messages, user_message)
             message_text == state.input_text
             context == ChatContext(messages)
         IN  [state |-> [input_text |-> <<>>, messages |-> messages,
                         loading |-> TRUE],
              cmds |-> CommandPerform(
                  [fut |-> "send_chat_message", to |-> "chat",
                   client |-> api_client,
                   prompt |-> message_text, model |-> context])]

\* ChatMessage::MessageReceived, had it left loading as it was
ChatMessageReceived_keeps_loading(state, response) ==
    [state |-> [state EXCEPT !.messages =
                    Append(@, [content |-> response.response, is_user |-> FALSE,
                               agent |-> Some(response.agent_used)])],
     cmds |-> CommandNone]

\* ChatMessage::MessageReceived
ChatMessageReceived(state, response) ==
    LET assistant_message ==
            [content |-> response.response, is_user |-> FALSE,
             agent |-> Some(response.agent_used)]
    IN  [state |-> [state EXCEPT !.messages = Append(@, assistant_message),
                                 !.loading = FALSE],
         cmds |-> CommandNone]

\* chat::update, had ClearChat reset the whole page state
ChatUpdate_clear_resets(state, message, api_client) ==
    CASE message.t = "InputChanged" ->
           [state |-> [state EXCEPT !.input_text = message.text],
            cmds |-> CommandNone]
      [] message.t = "SendMessage" -> ChatSendMessage(state, api_client)
      [] message.t = "MessageReceived" ->
           ChatMessageReceived(state, message.response)
      [] message.t = "FocusInput" -> [state |-> state, cmds |-> CommandNone]
      [] message.t = "ClearChat" ->
           [state |-> ChatStateDefault, cmds |-> CommandNone]

\* chat::update
ChatUpdate(state, message, api_client) ==
    CASE message.t = "InputChanged" ->
           [state |-> [state EXCEPT !.input_text = message.text],
            cmds |-> CommandNone]
      [] message.t = "SendMessage" -> ChatSendMessage(state, api_client)
      [] message.t = "MessageReceived" ->
           ChatMessageReceived(state, message.response)
      [] message.t = "FocusInput" -> [state |-> state, cmds |-> CommandNone]
      [] message.t = "ClearChat" ->
           [state |-> [state EXCEPT !.messages = <<>>], cmds |-> CommandNone]

\* -------------------------------------------------- ui/pages/dashboard.rs

\* impl Default for dashboard::State
DashboardStateDefault ==
    [weather |-> None, recent_activities |-> <<>>, loading |-> FALSE]

\* The closure at dashboard.rs:50, had it given up after a failure
DashboardResultMessage_gives_up(result) ==
    IF result.ok THEN [t |-> "WeatherLoaded", weather |-> result.value]
    ELSE [t |-> "NavigateToPage", page |-> "Dashboard"]

\* The closure at dashboard.rs:50: the message a finished weather request
\* started by RefreshWeather delivers.
DashboardResultMessage(result) ==
    IF result.ok THEN [t |-> "WeatherLoaded", weather |-> result.value]
    ELSE [t |-> "RefreshWeather"]

\* dashboard::update
DashboardUpdate(state, message, api_client) ==
    CASE message.t = "WeatherLoaded" ->
           [state |-> [state EXCEPT !.weather = Some(message.weather),
                                    !.loading = FALSE],
            cmds |-> CommandNone]
      [] message.t = "RefreshWeather" ->
           [state |-> [state EXCEPT !.loading = TRUE],
            cmds |-> CommandPerform(
                [fut |-> "get_weather", to |-> "dashboard",
                 client |-> api_client])]
      [] message.t = "NavigateToPage" ->
           [state |-> state, cmds |-> CommandNone]

\* ----------------------------------------------------- ui/pages/pantry.rs

\* impl Default for pantry::State
PantryStateDefault == [items |-> <<>>, filter_text |-> <<>>, loading |-> FALSE]

\* The closure at pantry.rs:56: the message a finished items request started
\* by LoadItems delivers.
PantryResultMessage(result) ==
    IF result.ok THEN [t |-> "ItemsLoaded", items |-> result.value]
    ELSE [t |-> "ItemsLoaded", items |-> <<>>]

\* pantry::update
PantryUpdate(state, message, api_client) ==
    CASE message.t = "ItemsLoaded" ->
           [state |-> [state EXCEPT !.items = message.items,
                                    !.loading = FALSE],
            cmds |-> CommandNone]
      [] message.t = "LoadItems" ->
           [state |-> [state EXCEPT !.loading = TRUE],
            cmds |-> CommandPerform(
                [fut |-> "get_food_items", to |-> "pantry",
                 client |-> api_client])]
      [] message.t = "FilterChanged" ->
           [state |-> [state EXCEPT !.filter_text = message.text],
            cmds |-> CommandNone]
      [] message.t = "AddItem" -> [state |-> state, cmds |-> CommandNone]
      [] message.t = "RemoveItem" -> [state |-> state, cmds |-> CommandNone]

\* -------------------------------------------------------- ui/pages/ocr.rs

\* impl Default for ocr::State
OCRStateDefault ==
    [result |-> None, image_path |-> None, loading |-> FALSE, error |-> None]

\* The closure at ocr.rs:86: the message a finished upload delivers.
OCRResultMessage(result) ==
    IF result.ok THEN [t |-> "ResultReceived", result |-> result.value]
    ELSE [t |-> "Error", error |-> ApiErrorText(result.err)]

\* ocr::update
OCRUpdate(state, message, api_client) ==
    CASE message.t = "OpenCamera" ->
           [state |-> [state EXCEPT !.error = Some(
                <<"C","a","m","e","r","a"," ","f","u","n","c","t","i","o","n",
                  "a","l","i","t","y"," ","n","o","t"," ","i","m","p","l","e",
                  "m","e","n","t","e","d"," ","y","e","t",".">>)],
            cmds |-> CommandNone]
      [] message.t = "SelectImage" ->
           [state |-> [state EXCEPT !.error = Some(
                <<"F","i","l","e"," ","p","i","c","k","e","r"," ","n","o","t",
                  " ","i","m","p","l","e","m","e","n","t","e","d"," ","y","e",
                  "t",".">>)],
            cmds |-> CommandNone]
      [] message.t = "ImageSelected" ->
           [state |-> [state EXCEPT !.image_path = Some(message.path)],
            cmds |-> CommandPerform([fut |-> "read_file", to |-> "ocr"])]
      [] message.t = "ProcessImage" ->
           [state |-> [state EXCEPT !.loading = TRUE, !.error = None],
            cmds |-> CommandPerform(
                [fut |-> "upload_receipt", to |-> "ocr",
                 client |-> api_client, image_data |-> message.image_data])]
      [] message.t = "ResultReceived" ->
           [state |-> [state EXCEPT !.result = Some(message.result),
                                    !.loading = FALSE],
            cmds |-> CommandNone]
      [] message.t = "Error" ->
           [state |-> [state EXCEPT !.error = Some(message.error),
                                    !.loading = FALSE],
            cmds |-> CommandNone]

\* --------------------------------------------------- ui/pages/settings.rs

\* impl Default for settings::State
SettingsStateDefault == [edited_settings |-> None, saving |-> FALSE]

\* settings::update on the page state, the live settings and the config
\* store, whose write (SaveSettings) meets io
SettingsUpdate(state, message, settings, store, io) ==
    LET edited_settings ==
            IF state.edited_settings = None THEN settings
            ELSE state.edited_settings[1]
        Edited(e) ==
            [state |-> [state EXCEPT !.edited_settings = Some(e)],
             settings |-> settings, store |-> store, cmds |-> CommandNone]
    IN  CASE message.t = "EditBackendUrl" ->
               Edited([edited_settings EXCEPT !.backend_url = message.url])
          [] message.t = "ToggleThemeMode" ->
               Edited([edited_settings EXCEPT !.theme_mode = message.mode])
          [] message.t = "ToggleNotifications" ->
               Edited([edited_settings EXCEPT
                          !.notifications_enabled = message.enabled])
          [] message.t = "ToggleAutoSync" ->
               Edited([edited_settings EXCEPT !.auto_sync = message.enabled])
          [] message.t = "EditOcrUploadDir" ->
               Edited([edited_settings EXCEPT !.ocr_upload_dir = message.dir])
          [] message.t = "SaveSettings" ->
               [state |-> [state EXCEPT !.edited_settings = Some(edited_settings)],
                settings |-> edited_settings,
                store |-> AppSettingsSave(edited_settings, store, io).store,
                cmds |-> CommandNone]
          [] message.t = "ResetSettings" -> Edited(AppSettingsDefault)

\* ------------------------------------------------------------ core/state.rs

Pages == {"Dashboard", "Chat", "Pantry", "OCR", "Settings"}

\* impl Default for AppState (loading_states, a map no code reads or
\* writes, is left out)
AppStateDefault ==
    [current_page |-> "Dashboard",
     settings |-> AppSettingsDefault,
     error_state |-> None,
     dashboard_state |-> DashboardStateDefault,
     chat_state |-> ChatStateDefault,
     pantry_state |-> PantryStateDefault,
     ocr_state |-> OCRStateDefault,
     settings_state |-> SettingsStateDefault]

\* ------------------------------------------------------------------ app.rs

VARIABLES
    nav,           \* MyAppAssistant.nav: the active item of the navigation bar
    state,         \* MyAppAssistant.state: the AppState
    api_client,    \* MyAppAssistant.api_client: the client's base_url
    config_store,  \* the platform config store's entry for the application
    inflight,      \* the commands the runtime is driving, oldest first
    last,          \* the message processed last, where it came from and the
                   \* HTTP requests processing it issued
    events,        \* the user-originated messages the run has left
    call           \* the client call made last, with what it met and returned

vars ==
    <<nav, state, api_client, config_store, inflight, last, events, call>>

\* The navigation bar's item for a page (app.rs:125).
NavId(page) ==
    CASE page = "Dashboard" -> "dashboard"
      [] page = "Chat" -> "chat"
      [] page = "Pantry" -> "pantry"
      [] page = "OCR" -> "ocr"
      [] page = "Settings" -> "settings"

NavIds == {NavId(p) : p \in Pages}

\* MyAppAssistant::on_nav_select, had selecting the dashboard also reloaded
\* the pantry
on_nav_select_reload_all(self, id) ==
    LET to(page, cmds) ==
            [self |-> [self EXCEPT !.nav = id, !.state.current_page = page],
             cmds |-> cmds]
        weather == [fut |-> "get_weather", to |-> "nav",
                    client |-> self.api_client]
        items == [fut |-> "get_food_items", to |-> "nav",
                  client |-> self.api_client]
    IN  CASE id = "dashboard" -> to("Dashboard", <<weather, items>>)
          [] id = "chat" -> to("Chat", CommandNone)
          [] id = "pantry" -> to("Pantry", CommandPerform(items))
          [] id = "ocr" -> to("OCR", CommandNone)
          [] id = "settings" -> to("Settings", CommandNone)

\* MyAppAssistant::on_nav_select
on_nav_select(self, id) ==
    LET to(page, cmds) ==
            [self |-> [self EXCEPT !.nav = id, !.state.current_page = page],
             cmds |-> cmds]
    IN  CASE id = "dashboard" ->
               to("Dashboard", CommandPerform(
                   [fut |-> "get_weather", to |-> "nav",
                    client |-> self.api_client]))
          [] id = "chat" -> to("Chat", CommandNone)
          [] id = "pantry" ->
               to("Pantry", CommandPerform(
                   [fut |-> "get_food_items", to |-> "nav",
                    client |-> self.api_client]))
          [] id = "ocr" -> to("OCR", CommandNone)
          [] id = "settings" -> to("Settings", CommandNone)

\* MyAppAssistant::update on self (nav, state, api_client) and the config
\* store, whose write (SaveSettings) meets io: self and the store afterwards,
\* and the command returned.  One operator for each arm of the match.

\* Message::NavigateTo(page)
update_NavigateTo(self, message, store, io) ==
    LET r == on_nav_select(self, NavId(message.page))
    IN  [self |-> r.self, store |-> store, cmds |-> r.cmds]

\* Message::Dashboard(msg)
update_Dashboard(self, message, store, io) ==
    LET r == DashboardUpdate(self.state.dashboard_state, message.msg,
                             self.api_client)
    IN  [self |-> [self EXCEPT !.state.dashboard_state = r.state],
         store |-> store, cmds |-> r.cmds]

\* Message::Chat(msg)
update_Chat(self, message, store, io) ==
    LET r == ChatUpdate(self.state.chat_state, message.msg, self.api_client)
    IN  [self |-> [self EXCEPT !.state.chat_state = r.state],
         store |-> store, cmds |-> r.cmds]

\* Message::Pantry(msg)
update_Pantry(self, message, store, io) ==
    LET r == PantryUpdate(self.state.pantry_state, message.msg,
                          self.api_client)
    IN  [self |-> [self EXCEPT !.state.pantry_state = r.state],
         store |-> store, cmds |-> r.cmds]

\* Message::OCR(msg), had it also reported the page's error in the
\* application's error state
update_OCR_global_error(self, message, store, io) ==
    LET r == OCRUpdate(self.state.ocr_state, message.msg, self.api_client)
    IN  [self |-> [self EXCEPT !.state.ocr_state = r.state,
                               !.state.error_state = r.state.error],
         store |-> store, cmds |-> r.cmds]

\* Message::OCR(msg)
update_OCR(self, message, store, io) ==
    LET r == OCRUpdate(self.state.ocr_state, message.msg, self.api_client)
    IN  [self |-> [self EXCEPT !.state.ocr_state = r.state],
         store |-> store, cmds |-> r.cmds]

\* Message::Settings(msg)
update_Settings(self, message, store, io) ==
    LET r == SettingsUpdate(self.state.settings_state, message.msg,
                            self.state.settings, store, io)
    IN  [self |-> [self EXCEPT !.state.settings_state = r.state,
                               !.state.settings = r.settings],
         store |-> r.store, cmds |-> r.cmds]

\* Message::Config(new_settings)
update_Config(self, message, store, io) ==
    [self |-> [self EXCEPT !.state.settings = message.settings,
                           !.api_client = message.settings.backend_url],
     store |-> store, cmds |-> CommandNone]

\* Message::Close
update_Close(self, message, store, io) ==
    [self |-> self, store |-> store,
     cmds |-> CommandPerform([fut |-> "quit", to |-> "runtime"])]

\* Message::Minimize
update_Minimize(self, message, store, io) ==
    [self |-> self, store |-> store,
     cmds |-> CommandPerform([fut |-> "minimize", to |-> "runtime"])]

\* Message::Error(error_message)
update_Error(self, message, store, io) ==
    [self |-> [self EXCEPT !.state.error_state = Some(message.error)],
     store |-> store, cmds |-> CommandNone]

update(self, message, store, io) ==
    CASE message.t = "NavigateTo" -> update_NavigateTo(self, message, store, io)
      [] message.t = "Dashboard" -> update_Dashboard(self, message, store, io)
      [] message.t = "Chat" -> update_Chat(self, message, store, io)
      [] message.t = "Pantry" -> update_Pantry(self, message, store, io)
      [] message.t = "OCR" -> update_OCR(self, message, store, io)
      [] message.t = "Settings" -> update_Settings(self, message, store, io)
      [] message.t = "Config" -> update_Config(self, message, store, io)
      [] message.t = "Close" -> update_Close(self, message, store, io)
      [] message.t = "Minimize" -> update_Minimize(self, message, store, io)
      [] message.t = "Error" -> update_Error(self, message, store, io)

\* ----------------------------------------------------------------- inputs

\* What the user types into the chat input.
InputTexts == {<<>>, <<" ">>, <<"\t", " ">>, <<"a">>, <<" ", "b", " ">>}
\* What the user types into the pantry filter.
FilterTexts == {<<"m">>}
ImagePaths == {"/home/user/receipt.jpg"}
\* The settings a Config message carries (the store's entry as this or
\* another process wrote it).
ConfigInputs == {AppSettingsDefault, AppSettingsOther}
\* The agent a backend names in a chat response.
Agents == {<<"a","i">>}
WeatherValues == {"sunny", "rain"}
ItemLists == {<<"milk">>}
OCRResults == {"receipt"}

\* What the backend answers the application's requests with: one answer for
\* each way a call can end.
Timeouts == {[send |-> "timeout"]}
ChatAnswers ==
    Timeouts
    \cup {[send |-> "ok", status |-> 500, body |-> [kind |-> "unreadable"]]}
    \cup Answers({200}, {<<"o","k">>}, {})
WeatherAnswers ==
    Timeouts
    \cup {[send |-> "ok", status |-> 500, body |-> [kind |-> "unreadable"]]}
    \cup {[send |-> "ok", status |-> 200,
           body |-> [kind |-> "json", text |-> <<"w">>, value |-> w]] :
          w \in WeatherValues}
ItemsAnswers ==
    Timeouts
    \cup {[send |-> "ok", status |-> 200,
           body |-> [kind |-> "json", text |-> <<"i">>, value |-> l]] :
          l \in ItemLists}
OCRAnswers ==
    {[send |-> "ok", status |-> 404, body |-> [kind |-> "text", text |-> <<"x">>]]}
    \cup {[send |-> "ok", status |-> 200,
           body |-> [kind |-> "json", text |-> <<"r">>, value |-> r]] :
          r \in OCRResults}

\* ------------------------------------------------------------ the runtime

Self == [nav |-> nav, state |-> state, api_client |-> api_client]

\* The page a page message belongs to, with the message's variant.
MsgTag(message) ==
    IF message.t \in {"Dashboard", "Chat", "Pantry", "OCR", "Settings"}
    THEN <<message.t, message.msg.t>>
    ELSE <<message.t>>

\* A sequence without its i-th element.
Remove(s, i) == SubSeq(s, 1, i - 1) \o SubSeq(s, i + 1, Len(s))

\* The runtime hands message to update while the commands in pending stay in
\* flight, and starts the command update returns.  from and result say where
\* the message comes from: "user", or the owner of the closure of the command
\* that ended and, for an HTTP request, the Result its call returned.
Deliver(message, pending, io, from, result) ==
    LET r == update(Self, message, config_store, io)
    IN  /\ Len(pending) + Len(r.cmds) <= MaxInflight
        /\ nav' = r.self.nav
        /\ state' = r.self.state
        /\ api_client' = r.self.api_client
        /\ config_store' = r.store
        /\ inflight' = pending \o r.cmds
        /\ last' = [msg |-> MsgTag(message), http |-> HttpCount(r.cmds),
                     from |-> from, result |-> result]
        /\ UNCHANGED call

NoBudget == 0 - 1

\* A message the user or the platform originates is counted against the
\* run's budget, when the run has one.
Tick ==
    IF events = NoBudget THEN UNCHANGED events
    ELSE events > 0 /\ events' = events - 1

\* The user or the platform originates message: no command ends with it.
FromUser(message, io) == Deliver(message, inflight, io, "user", None)

\* The command at position i ends and its closure's message is processed.
Complete(i, message, result) ==
    /\ UNCHANGED events
    /\ Deliver(message, Remove(inflight, i), "ok", inflight[i].to, result)

\* ------------------------------------------------- user-originated messages

\* The user selects an item of the navigation bar: the toolkit calls
\* on_nav_select itself.
NavSelect ==
    \E id \in NavIds :
        LET r == on_nav_select(Self, id)
        IN  /\ Tick
            /\ Len(inflight) + Len(r.cmds) <= MaxInflight
            /\ nav' = r.self.nav
            /\ state' = r.self.state
            /\ api_client' = r.self.api_client
            /\ inflight' = inflight \o r.cmds
            /\ last' = [msg |-> <<"on_nav_select">>, http |-> HttpCount(r.cmds),
                         from |-> "user", result |-> None]
            /\ UNCHANGED <<config_store, call>>

UiNavigateTo ==
    \E page \in Pages :
        Tick /\ FromUser([t |-> "NavigateTo", page |-> page], "ok")

UiDashboardRefreshWeather ==
    Tick
    /\ FromUser([t |-> "Dashboard", msg |-> [t |-> "RefreshWeather"]], "ok")

UiDashboardNavigateToPage ==
    \E page \in Pages :
        Tick /\ FromUser([t |-> "Dashboard",
                   msg |-> [t |-> "NavigateToPage", page |-> page]], "ok")

UiChatInputChanged ==
    \E text \in InputTexts :
        Tick
        /\ FromUser([t |-> "Chat", msg |-> [t |-> "InputChanged", text |-> text]], "ok")

\* The user stops sending once the transcript has no room for the entry and
\* its answer.
UiChatSendMessage ==
    /\ Len(state.chat_state.messages) + 2 <= MaxTranscript
    /\ Tick /\ FromUser([t |-> "Chat", msg |-> [t |-> "SendMessage"]], "ok")

UiChatFocusInput ==
    Tick /\ FromUser([t |-> "Chat", msg |-> [t |-> "FocusInput"]], "ok")

UiChatClearChat ==
    Tick /\ FromUser([t |-> "Chat", msg |-> [t |-> "ClearChat"]], "ok")

UiPantryLoadItems ==
    Tick /\ FromUser([t |-> "Pantry", msg |-> [t |-> "LoadItems"]], "ok")

UiPantryFilterChanged ==
    \E text \in FilterTexts :
        Tick /\ FromUser([t |-> "Pantry",
                   msg |-> [t |-> "FilterChanged", text |-> text]], "ok")

UiPantryAddItem ==
    Tick /\ FromUser([t |-> "Pantry", msg |-> [t |-> "AddItem"]], "ok")

UiPantryRemoveItem ==
    Tick /\ FromUser([t |-> "Pantry", msg |-> [t |-> "RemoveItem"]], "ok")

UiOCROpenCamera ==
    Tick /\ FromUser([t |-> "OCR", msg |-> [t |-> "OpenCamera"]], "ok")

UiOCRSelectImage ==
    Tick /\ FromUser([t |-> "OCR", msg |-> [t |-> "SelectImage"]], "ok")

\* No view emits ImageSelected yet (SelectImage only reports that the file
\* picker is missing); it is the message a file picker would deliver.
UiOCRImageSelected ==
    \E path \in ImagePaths :
        Tick
        /\ FromUser([t |-> "OCR", msg |-> [t |-> "ImageSelected", path |-> path]], "ok")

UiSettingsEditBackendUrl ==
    \E url \in Urls :
        Tick /\ FromUser([t |-> "Settings",
                   msg |-> [t |-> "EditBackendUrl", url |-> url]], "ok")

UiSettingsToggleThemeMode ==
    \E mode \in ThemeModes :
        Tick /\ FromUser([t |-> "Settings",
                   msg |-> [t |-> "ToggleThemeMode", mode |-> mode]], "ok")

UiSettingsToggleNotifications ==
    \E enabled \in BOOLEAN :
        Tick /\ FromUser([t |-> "Settings",
                   msg |-> [t |-> "ToggleNotifications", enabled |-> enabled]], "ok")

UiSettingsToggleAutoSync ==
    \E enabled \in BOOLEAN :
        Tick /\ FromUser([t |-> "Settings",
                   msg |-> [t |-> "ToggleAutoSync", enabled |-> enabled]], "ok")

UiSettingsEditOcrUploadDir ==
    \E dir \in Dirs :
        Tick /\ FromUser([t |-> "Settings",
                   msg |-> [t |-> "EditOcrUploadDir", dir |-> dir]], "ok")

\* The write to the config store succeeds or fails.
UiSettingsSaveSettings ==
    \E io \in {"ok", "error"} :
        Tick /\ FromUser([t |-> "Settings", msg |-> [t |-> "SaveSettings"]], io)

UiSettingsResetSettings ==
    Tick /\ FromUser([t |-> "Settings", msg |-> [t |-> "ResetSettings"]], "ok")

\* The config subscription (app.rs:218) reports the store's entry.
ConfigChanged ==
    \E new_settings \in ConfigInputs :
        Tick /\ FromUser([t |-> "Config", settings |-> new_settings], "ok")

UiClose == Tick /\ FromUser([t |-> "Close"], "ok")

UiMinimize == Tick /\ FromUser([t |-> "Minimize"], "ok")

\* ------------------------------------------------------------ completions

\* The initial command (app.rs:67) ends.
InitComplete ==
    \E i \in 1..Len(inflight) :
        /\ inflight[i].fut = "init"
        /\ Complete(i, [t |-> "Dashboard", msg |-> [t |-> "RefreshWeather"]],
                    None)

\* A chat request ends (chat.rs:95).
ChatComplete ==
    \E i \in 1..Len(inflight) :
        /\ inflight[i].fut = "send_chat_message"
        /\ \E resp \in ChatAnswers, agent \in Agents :
               LET result == send_chat_message(resp)
               IN  Complete(i, [t |-> "Chat",
                                msg |-> ChatResultMessage(result, agent)],
                            Some(result))

\* A weather request started by RefreshWeather ends (dashboard.rs:48).
WeatherComplete ==
    \E i \in 1..Len(inflight) :
        /\ inflight[i].fut = "get_weather" /\ inflight[i].to = "dashboard"
        /\ \E resp \in WeatherAnswers :
               LET result == get_weather(resp)
               IN  Complete(i, [t |-> "Dashboard",
                                msg |-> DashboardResultMessage(result)],
                            Some(result))

\* The closure at app.rs:90: the message a finished weather request started
\* by the navigation bar delivers.
NavWeatherResultMessage(result) ==
    IF result.ok
    THEN [t |-> "Dashboard",
          msg |-> [t |-> "WeatherLoaded", weather |-> result.value]]
    ELSE [t |-> "Error", error |-> ApiErrorText(result.err)]

NavWeatherComplete ==
    \E i \in 1..Len(inflight) :
        /\ inflight[i].fut = "get_weather" /\ inflight[i].to = "nav"
        /\ \E resp \in WeatherAnswers :
               LET result == get_weather(resp)
               IN  Complete(i, NavWeatherResultMessage(result), Some(result))

\* Client::get_food_items, which pantry.rs and app.rs call and client.rs
\* does not define: the client's pantry call, get_pantry_products.
get_food_items(resp) == get_pantry_products(resp)

\* An items request started by LoadItems ends (pantry.rs:54).
ItemsComplete ==
    \E i \in 1..Len(inflight) :
        /\ inflight[i].fut = "get_food_items" /\ inflight[i].to = "pantry"
        /\ \E resp \in ItemsAnswers :
               LET result == get_food_items(resp)
               IN  Complete(i, [t |-> "Pantry",
                                msg |-> PantryResultMessage(result)],
                            Some(result))

\* The closure at app.rs:104.
NavItemsResultMessage(result) ==
    IF result.ok
    THEN [t |-> "Pantry", msg |-> [t |-> "ItemsLoaded", items |-> result.value]]
    ELSE [t |-> "Error", error |-> ApiErrorText(result.err)]

NavItemsComplete ==
    \E i \in 1..Len(inflight) :
        /\ inflight[i].fut = "get_food_items" /\ inflight[i].to = "nav"
        /\ \E resp \in ItemsAnswers :
               LET result == get_food_items(resp)
               IN  Complete(i, NavItemsResultMessage(result), Some(result))

\* The placeholder that reads the selected file ends (ocr.rs:70).
ReadFileComplete ==
    \E i \in 1..Len(inflight) :
        /\ inflight[i].fut = "read_file"
        /\ Complete(i, [t |-> "OCR",
                        msg |-> [t |-> "ProcessImage", image_data |-> <<>>]],
                    None)

\* An upload ends (ocr.rs:84).
UploadComplete ==
    \E i \in 1..Len(inflight) :
        /\ inflight[i].fut = "upload_receipt"
        /\ \E resp \in OCRAnswers :
               LET result == upload_receipt(resp)
               IN  Complete(i, [t |-> "OCR", msg |-> OCRResultMessage(result)],
                            Some(result))

\* The command of Close or Minimize ends: its message (Quit, Minimize) is the
\* toolkit's own and never reaches update.
WindowComplete ==
    \E i \in 1..Len(inflight) :
        /\ inflight[i].to = "runtime"
        /\ inflight' = Remove(inflight, i)
        /\ last' = [msg |-> <<"runtime">>, http |-> 0,
                     from |-> inflight[i].to, result |-> None]
        /\ UNCHANGED <<nav, state, api_client, config_store, events, call>>

\* ---------------------------------------------------------- specifications

NoCall == [fn |-> "none"]

\* MyAppAssistant::init, for a run with the given budget of user-originated
\* messages: the settings loaded from the store only choose the client's
\* base_url; the state is AppState::default().
init(budget) ==
    /\ config_store \in {None, Some(Serialize(AppSettingsOther))}
    /\ nav = "dashboard"
    /\ state = AppStateDefault
    /\ api_client = unwrap_or_default(AppSettingsLoad(config_store)).backend_url
    /\ inflight = <<[fut |-> "init", to |-> "init"]>>
    /\ last = [msg |-> <<"init">>, http |-> 0, from |-> "user", result |-> None]
    /\ events = budget
    /\ call = NoCall

Init == init(MaxEvents)

Completion ==
    \/ InitComplete
    \/ ChatComplete
    \/ WeatherComplete
    \/ NavWeatherComplete
    \/ ItemsComplete
    \/ NavItemsComplete
    \/ ReadFileComplete
    \/ UploadComplete
    \/ WindowComplete

Next ==
    \/ NavSelect
    \/ UiNavigateTo
    \/ UiDashboardRefreshWeather
    \/ UiDashboardNavigateToPage
    \/ UiChatInputChanged
    \/ UiChatSendMessage
    \/ UiChatFocusInput
    \/ UiChatClearChat
    \/ UiPantryLoadItems
    \/ UiPantryFilterChanged
    \/ UiPantryAddItem
    \/ UiPantryRemoveItem
    \/ UiOCROpenCamera
    \/ UiOCRSelectImage
    \/ UiOCRImageSelected
    \/ UiSettingsEditBackendUrl
    \/ UiSettingsToggleThemeMode
    \/ UiSettingsToggleNotifications
    \/ UiSettingsToggleAutoSync
    \/ UiSettingsEditOcrUploadDir
    \/ UiSettingsSaveSettings
    \/ UiSettingsResetSettings
    \/ ConfigChanged
    \/ UiClose
    \/ UiMinimize
    \/ Completion

\* The whole application, for MaxEvents user-originated messages.
Spec == Init /\ [][Next]_vars

\* The chat page with navigation and configuration changes, for MaxChatEvents
\* user-originated messages.
ChatNavInit == init(MaxChatEvents)

ChatNavNext ==
    \/ UiChatInputChanged
    \/ UiChatSendMessage
    \/ UiChatClearChat
    \/ NavSelect
    \/ UiNavigateTo
    \/ ConfigChanged
    \/ InitComplete
    \/ ChatComplete
    \/ WeatherComplete
    \/ NavWeatherComplete
    \/ NavItemsComplete

ChatNavSpec == ChatNavInit /\ [][ChatNavNext]_vars

\* The chat page alone, for as many messages as the transcript has room for.
ChatInit == init(NoBudget)

ChatNext ==
    \/ UiChatInputChanged
    \/ UiChatSendMessage
    \/ UiChatFocusInput
    \/ UiChatClearChat
    \/ ChatComplete

ChatSpec == ChatInit /\ [][ChatNext]_vars

\* Every chat request ends: the client's 30 s timeout (client.rs:19) bounds
\* it, and the runtime delivers the message of every command that ends.
ChatFairSpec == ChatSpec /\ WF_vars(ChatComplete)

\* The chat page alone, the user sending until the transcript holds
\* MaxContext entries, more than the context's window.
UiChatSendMessageLong ==
    /\ Len(state.chat_state.messages) + 2 <= MaxContext
    /\ Tick /\ FromUser([t |-> "Chat", msg |-> [t |-> "SendMessage"]], "ok")

ContextNext ==
    \/ UiChatInputChanged
    \/ UiChatSendMessageLong
    \/ UiChatClearChat
    \/ ChatComplete

ContextSpec == ChatInit /\ [][ContextNext]_vars

\* The dashboard and the navigation bar, for MaxEvents user-originated
\* messages.
DashNext ==
    \/ UiDashboardRefreshWeather
    \/ NavSelect
    \/ InitComplete
    \/ WeatherComplete
    \/ NavWeatherComplete
    \/ NavItemsComplete

DashSpec == Init /\ [][DashNext]_vars

\* The initial command ends (its future is ready at once, app.rs:68) and
\* every weather request RefreshWeather starts ends: the client's 30 s
\* timeout (client.rs:19) bounds it.
DashFairSpec == DashSpec /\ WF_vars(InitComplete) /\ WF_vars(WeatherComplete)

\* ------------------------------------------------------- the client alone

ClientStatuses == {200, 201, 204, 304, 400, 401, 403, 404, 408, 500}

\* What a call of the client can meet.
ClientAnswers ==
    SendFailures
    \cup Answers(ClientStatuses, {<<"o","k">>}, {<<<<"{","}">>, "value">>})

\* One call of the client that meets resp and returns result.
Called(fn, resp, result) ==
    /\ call' = [fn |-> fn, resp |-> resp, result |-> result]
    /\ UNCHANGED <<nav, state, api_client, config_store, inflight, last, events>>

CallGetPantryProducts ==
    \E resp \in ClientAnswers :
        Called("get_pantry_products", resp, get_pantry_products(resp))

CallSendChatMessage ==
    \E resp \in ClientAnswers :
        Called("send_chat_message", resp, send_chat_message(resp))

CallSendMemoryChatMessage ==
    \E resp \in ClientAnswers :
        Called("send_memory_chat_message", resp, send_memory_chat_message(resp))

CallUploadReceipt ==
    \E resp \in ClientAnswers :
        Called("upload_receipt", resp, upload_receipt(resp))

CallGetWeather ==
    \E resp \in ClientAnswers : Called("get_weather", resp, get_weather(resp))

ClientNext ==
    \/ CallGetPantryProducts
    \/ CallSendChatMessage
    \/ CallSendMemoryChatMessage
    \/ CallUploadReceipt
    \/ CallGetWeather

ClientSpec == Init /\ [][ClientNext]_vars

\* --------------------------------------------------------- utils/helpers.rs

\* A calendar date (NaiveDate): year, month, day.
Date(y, m, d) == [year |-> y, month |-> m, day |-> d]

IsDigit(c) == c \in {"0", "1", "2", "3", "4", "5", "6", "7", "8", "9"}

DigitValue(c) == CHOOSE d \in 0..9 : DigitChar(d) = c

RECURSIVE ScanNumber(_, _, _)
\* chrono's scan::number(s, 1, max) once the first digit is known to be
\* there: the value of the digits at the start of s, max of them at most,
\* continuing from acc, and what follows them.
ScanNumber(s, max, acc) ==
    IF max = 0 \/ s = <<>> \/ ~IsDigit(Head(s))
    THEN [value |-> acc, rest |-> s]
    ELSE ScanNumber(Tail(s), max - 1, acc * 10 + DigitValue(Head(s)))

\* A numeric item of the format: leading whitespace is skipped, then one to
\* width digits are read; a signed item (the year) reads any number of
\* digits after an explicit sign.
ParseNumeric(s, width, signed) ==
    LET t == TrimStart(s)
        sign == IF signed /\ t # <<>> /\ Head(t) \in {"-", "+"}
                THEN Head(t) ELSE ""
        u == IF sign = "" THEN t ELSE Tail(t)
        n == ScanNumber(u, IF sign = "" THEN width ELSE Len(u), 0)
    IN  IF u = <<>> \/ ~IsDigit(Head(u)) THEN [ok |-> FALSE]
        ELSE [ok |-> TRUE,
              value |-> IF sign = "-" THEN 0 - n.value ELSE n.value,
              rest |-> n.rest]

\* A literal item of the format.
ParseLiteral(s, c) ==
    IF s # <<>> /\ Head(s) = c THEN [ok |-> TRUE, rest |-> Tail(s)]
    ELSE [ok |-> FALSE]

IsLeapYear(y) == y % 4 = 0 /\ (y % 100 # 0 \/ y % 400 = 0)

DaysInMonth(y, m) ==
    IF m = 2 THEN (IF IsLeapYear(y) THEN 29 ELSE 28)
    ELSE IF m \in {4, 6, 9, 11} THEN 30 ELSE 31

\* NaiveDate::from_ymd_opt
from_ymd_opt(y, m, d) ==
    IF m >= 1 /\ m <= 12 /\ d >= 1 /\ d <= DaysInMonth(y, m)
    THEN Some(Date(y, m, d)) ELSE None

\* NaiveDate::parse_from_str(s, "%Y-%m-%d"): year, "-", month, "-", day, then
\* the end of the input.
ParseFromStr(s) ==
    LET y == ParseNumeric(s, 4, TRUE)
        l1 == IF y.ok THEN ParseLiteral(y.rest, "-") ELSE [ok |-> FALSE]
        m == IF l1.ok THEN ParseNumeric(l1.rest, 2, FALSE) ELSE [ok |-> FALSE]
        l2 == IF m.ok THEN ParseLiteral(m.rest, "-") ELSE [ok |-> FALSE]
        d == IF l2.ok THEN ParseNumeric(l2.rest, 2, FALSE) ELSE [ok |-> FALSE]
    IN  IF d.ok /\ d.rest = <<>> /\ from_ymd_opt(y.value, m.value, d.value) # None
        THEN Ok(from_ymd_opt(y.value, m.value, d.value)[1])
        ELSE Err("ParseError")

RECURSIVE ZeroPad(_, _)
\* A text padded with zeros on the left to the width w.
ZeroPad(text, w) == IF Len(text) >= w THEN text ELSE ZeroPad(<<"0">> \o text, w)

\* %b
MonthAbbrev ==
    << <<"J","a","n">>, <<"F","e","b">>, <<"M","a","r">>, <<"A","p","r">>,
       <<"M","a","y">>, <<"J","u","n">>, <<"J","u","l">>, <<"A","u","g">>,
       <<"S","e","p">>, <<"O","c","t">>, <<"N","o","v">>, <<"D","e","c">> >>

\* %Y: four digits, and a sign before a year that has not four digits.
FormatYear(y) ==
    IF y >= 0 /\ y <= 9999 THEN ZeroPad(Digits(y), 4)
    ELSE IF y < 0 THEN <<"-">> \o ZeroPad(Digits(0 - y), 4)
    ELSE <<"+">> \o Digits(y)

\* NaiveDate::format("%d %b %Y").to_string()
FormatDate(date) ==
    ZeroPad(Digits(date.day), 2) \o <<" ">> \o MonthAbbrev[date.month]
    \o <<" ">> \o FormatYear(date.year)

\* NaiveDate's order
DateBefore(a, b) ==
    \/ a.year < b.year
    \/ a.year = b.year /\ a.month < b.month
    \/ a.year = b.year /\ a.month = b.month /\ a.day < b.day

\* format_date
format_date(date_str) ==
    LET parsed == ParseFromStr(date_str)
    IN  IF parsed.ok THEN FormatDate(parsed.value) ELSE date_str

\* is_expired, had it compared with <=
is_expired_or_today(date_str, today) ==
    LET parsed == ParseFromStr(date_str)
    IN  IF parsed.ok
        THEN DateBefore(parsed.value, today) \/ parsed.value = today
        ELSE FALSE

\* is_expired, today being Utc::now().date_naive()
is_expired(date_str, today) ==
    LET parsed == ParseFromStr(date_str)
    IN  IF parsed.ok THEN DateBefore(parsed.value, today) ELSE FALSE

\* The date strings the helpers are given: year, month and day texts put
\* together with "-", and strings of other shapes.
YearTexts == {<<"2","0","2","3">>, <<"2","0","2","4">>, <<"2","4">>}
MonthTexts == {<<"0","2">>, <<"2">>, <<"0","3">>, <<"1","3">>}
DayTexts == {<<"0","1">>, <<"1">>, <<"2","9">>, <<"3","0">>, <<"0","0">>}

DateTexts ==
    {y \o <<"-">> \o m \o <<"-">> \o d :
        y \in YearTexts, m \in MonthTexts, d \in DayTexts}
    \cup {<<>>, <<"a","b","c">>,
          <<"2","0","2","4","-","0","2","-","2","9","x">>,
          <<" ","2","0","2","4","-","0","2","-","2","9">>,
          <<"2","0","2","4","/","0","2","/","2","9">>,
          <<"2","0","2","4","-","0","2">>,
          <<"+","2","0","2","4","-","0","2","-","2","9">>,
          <<"2","0","2","4","5","-","0","2","-","2","9">>}

\* The dates Utc::now().date_naive() gives.
Todays == {Date(2024, 2, 29), Date(2024, 3, 1), Date(2023, 12, 31)}

\* What a call of a helper leaves as it was.
CalledHelper ==
    UNCHANGED <<nav, state, api_client, config_store, inflight, last, events>>

CallIsExpired ==
    \E s \in DateTexts, today \in Todays :
        /\ call' = [fn |-> "is_expired", arg |-> s, today |-> today,
                     result |-> is_expired(s, today)]
        /\ CalledHelper

CallFormatDate ==
    \E s \in DateTexts :
        /\ call' = [fn |-> "format_date", arg |-> s,
                     result |-> format_date(s)]
        /\ CalledHelper

HelperNext ==
    \/ CallIsExpired
    \/ CallFormatDate

HelperSpec == Init /\ [][HelperNext]_vars

\* ------------------------------------------------------------------ claims

\* Ok, or the variant of the ApiError.
ResultKind(result) == IF result.ok THEN "Ok" ELSE result.err.kind

\* Whether the call reads the body it is given: the two chat calls read it as
\* text, the other three decode it as JSON of their type.
Decodable(fn, body) ==
    IF fn \in {"send_chat_message", "send_memory_chat_message"}
    THEN body.kind # "unreadable"
    ELSE body.kind = "json"

\* C1: each of the five client calls maps what it meets the same way: a send
\* failure to RequestFailed, a non-success status to HttpError with that
\* status, a success status whose body the call cannot read or decode to
\* ParseFailed, and only a success status with a body the call decodes to Ok.
C1_UniformErrorMapping ==
    call.fn # "none" =>
        LET resp == call.resp
            result == call.result
        IN  IF resp.send # "ok" THEN ResultKind(result) = "RequestFailed"
            ELSE IF ~(resp.status \in 200..299)
            THEN ResultKind(result) = "HttpError"
                 /\ result.err.code = resp.status
            ELSE IF ~Decodable(call.fn, resp.body)
            THEN ResultKind(result) = "ParseFailed"
            ELSE ResultKind(result) = "Ok"

\* C1: a chat call met a success status and a body it could not read, and
\* returned ParseFailed.
C1_Witness ==
    /\ call.fn = "send_chat_message"
    /\ call.resp.send = "ok"
    /\ call.resp.status = 204
    /\ call.resp.body.kind = "unreadable"
    /\ ResultKind(call.result) = "ParseFailed"

\* C2: every failure of a client call has the matching variant of the six: a
\* request that exceeds the client's timeout is Timeout, a 401 from the
\* backend is AuthenticationFailed, a 400 is InvalidRequest, and the other
\* failures are RequestFailed, ParseFailed or HttpError.
C2_EveryFailureHasItsVariant ==
    (call.fn # "none" /\ ~call.result.ok) =>
        LET resp == call.resp
            kind == call.result.err.kind
        IN  /\ kind \in ApiErrorKinds
            /\ resp.send = "timeout" => kind = "Timeout"
            /\ (resp.send = "ok" /\ resp.status = 401) =>
                   kind = "AuthenticationFailed"
            /\ (resp.send = "ok" /\ resp.status = 400) =>
                   kind = "InvalidRequest"

\* The chat requests in flight.
ChatInflight == {i \in 1..Len(inflight) : inflight[i].fut = "send_chat_message"}

RequestingMessages ==
    {<<"NavigateTo">>, <<"on_nav_select">>, <<"Dashboard", "RefreshWeather">>,
     <<"Chat", "SendMessage">>, <<"Pantry", "LoadItems">>,
     <<"OCR", "ProcessImage">>}

\* C4: processing one message issues at most one HTTP request, and none
\* unless the message is a navigation, RefreshWeather, SendMessage, LoadItems
\* or ProcessImage.
C4_AtMostOneRequestPerMessage ==
    /\ last.http <= 1
    /\ last.msg \notin RequestingMessages => last.http = 0

\* C4: NavigateTo was processed and issued one request.
C4_Witness == last.msg = <<"NavigateTo">> /\ last.http = 1

\* The loading flag of the page that owns a closure.
PageLoading(page) ==
    CASE page = "dashboard" -> state.dashboard_state.loading
      [] page = "chat" -> state.chat_state.loading
      [] page = "pantry" -> state.pantry_state.loading
      [] page = "ocr" -> state.ocr_state.loading

\* Whether an error string is on display for the page: in the global error
\* state, in the OCR page's error, or as the chat's error entry.
ErrorRecorded(page) ==
    \/ state.error_state # None
    \/ page = "ocr" /\ state.ocr_state.error # None
    \/ /\ page = "chat"
       /\ state.chat_state.messages # <<>>
       /\ state.chat_state.messages[Len(state.chat_state.messages)].agent
              = Some(<<"e","r","r","o","r">>)

\* C5: a page message that starts a request leaves the page loading, and
\* after a request a page started has failed the page is not loading and an
\* error string is on display.
C5_FailureClearsLoadingAndRecordsError ==
    /\ (last.http = 1 /\ last.msg[1] \in {"Dashboard", "Chat", "Pantry", "OCR"})
           => PageLoading(CASE last.msg[1] = "Dashboard" -> "dashboard"
                            [] last.msg[1] = "Chat" -> "chat"
                            [] last.msg[1] = "Pantry" -> "pantry"
                            [] last.msg[1] = "OCR" -> "ocr")
    /\ (/\ last.from \in {"dashboard", "chat", "pantry", "ocr"}
        /\ last.result # None
        /\ ~last.result[1].ok)
           => ~PageLoading(last.from) /\ ErrorRecorded(last.from)

C7_SaveRoundTrip ==
    last.msg = <<"Settings", "SaveSettings">> =>
        /\ state.settings_state.edited_settings = Some(state.settings)
        /\ AppSettingsLoad(config_store) = Ok(state.settings)

\* C8: once the chat is loading it stops loading, and the step that stops it
\* appends exactly one entry, not the user's, to the transcript.
C8_LoadingEnds ==
    /\ state.chat_state.loading ~> ~state.chat_state.loading
    /\ [][(state.chat_state.loading /\ ~state'.chat_state.loading) =>
             /\ Len(state'.chat_state.messages)
                    = Len(state.chat_state.messages) + 1
             /\ SubSeq(state'.chat_state.messages, 1,
                       Len(state.chat_state.messages))
                    = state.chat_state.messages
             /\ ~state'.chat_state.messages[
                     Len(state'.chat_state.messages)].is_user]_vars

\* C8: a send was accepted and answered with an error, and the chat is no
\* longer loading.
C8_Witness ==
    /\ ~state.chat_state.loading
    /\ Len(state.chat_state.messages) = 2
    /\ state.chat_state.messages[1].is_user
    /\ last.result # None
    /\ ~last.result[1].ok

\* C9: a failed chat request appends to the transcript, whatever it holds,
\* one entry that is not the user's, with content "Error: " and the error's
\* text and with agent "error", clears loading and leaves the global error
\* state as it was.
C9_FailureIsFakeResponse ==
    [][(/\ last'.msg = <<"Chat", "MessageReceived">>
        /\ last'.result # None
        /\ ~last'.result[1].ok) =>
          /\ state'.chat_state.messages =
                 Append(state.chat_state.messages,
                        [content |-> <<"E","r","r","o","r",":"," ">>
                                       \o ApiErrorText(last'.result[1].err),
                         is_user |-> FALSE,
                         agent |-> Some(<<"e","r","r","o","r">>)])
          /\ ~state'.chat_state.loading
          /\ state'.error_state = state.error_state]_vars

\* C9: the transcript holds a user entry followed by the entry of a request
\* the backend answered with status 500.
C9_Witness ==
    /\ last.msg = <<"Chat", "MessageReceived">>
    /\ last.result = Some(Err(HttpError(500)))
    /\ Len(state.chat_state.messages) = 2
    /\ state.chat_state.messages[1].is_user
    /\ state.chat_state.messages[2].content =
           <<"E","r","r","o","r",":"," ","H","T","T","P"," ","e","r","r","o","r",
             ":"," ","5","0","0">>

\* C10: SendMessage processed while the input is empty or only whitespace,
\* or while the chat is loading, changes nothing and issues no request.
C10_BlankOrLoadingSendIsNoOp ==
    [][(/\ last'.msg = <<"Chat", "SendMessage">>
        /\ \/ Trim(state.chat_state.input_text) = <<>>
           \/ state.chat_state.loading) =>
          /\ state' = state
          /\ inflight' = inflight
          /\ last'.http = 0]_vars

\* C10: SendMessage was processed with an input of whitespace only, which is
\* still there.
C10_Witness ==
    /\ last.msg = <<"Chat", "SendMessage">>
    /\ state.chat_state.input_text = <<"\t", " ">>

\* Whether SendMessage, processed in this state, is accepted (chat.rs:51).
SendAccepted ==
    /\ Trim(state.chat_state.input_text) # <<>>
    /\ ~state.chat_state.loading

\* C11: an accepted SendMessage appends one user entry whose content is the
\* input as typed, sets loading, empties the input, and starts one request,
\* whose prompt is that same text.
C11_AcceptedSend ==
    [][(last'.msg = <<"Chat", "SendMessage">> /\ SendAccepted) =>
          /\ state'.chat_state.messages =
                 Append(state.chat_state.messages,
                        [content |-> state.chat_state.input_text,
                         is_user |-> TRUE, agent |-> None])
          /\ state'.chat_state.loading
          /\ state'.chat_state.input_text = <<>>
          /\ last'.http = 1
          /\ Len(inflight') = Len(inflight) + 1
          /\ SubSeq(inflight', 1, Len(inflight)) = inflight
          /\ inflight'[Len(inflight')].fut = "send_chat_message"
          /\ inflight'[Len(inflight')].prompt = state.chat_state.input_text]_vars

\* C11: a send of " b " was accepted: the transcript ends with the entry
\* " b " and the request in flight carries the prompt " b ".
C11_Witness ==
    /\ last.msg = <<"Chat", "SendMessage">>
    /\ last.http = 1
    /\ state.chat_state.messages # <<>>
    /\ state.chat_state.messages[Len(state.chat_state.messages)].content
           = <<" ", "b", " ">>
    /\ inflight[Len(inflight)].prompt = <<" ", "b", " ">>

RECURSIVE ContextFrom(_, _)
\* The entries of a transcript from the k-th on, one per line, each after
\* "User: " or "Assistant: ".
ContextFrom(m, k) ==
    LET line == (IF m[k].is_user THEN <<"U","s","e","r",":"," ">>
                 ELSE <<"A","s","s","i","s","t","a","n","t",":"," ">>)
                \o m[k].content
    IN  IF k >= Len(m) THEN line ELSE line \o <<"\n">> \o ContextFrom(m, k + 1)

\* Whether text ends with tail.
EndsWith(text, tail) ==
    /\ Len(tail) <= Len(text)
    /\ SubSeq(text, Len(text) - Len(tail) + 1, Len(text)) = tail

C13_TranscriptAlternates ==
    LET m == state.chat_state.messages
    IN  /\ \A i \in 1..Len(m) : m[i].is_user <=> (i % 2 = 1)
        /\ (m # <<>> /\ m[Len(m)].is_user) <=> state.chat_state.loading

\* The weather requests in flight that RefreshWeather started.
DashWeatherInflight ==
    {i \in 1..Len(inflight) :
        inflight[i].fut = "get_weather" /\ inflight[i].to = "dashboard"}

\* A weather request RefreshWeather started has just failed.
DashWeatherFailed ==
    /\ last.from = "dashboard"
    /\ last.result # None
    /\ ~last.result[1].ok

\* WeatherLoaded has just been processed.
WeatherLoaded == last.msg = <<"Dashboard", "WeatherLoaded">>

\* C14: the initial command's message is RefreshWeather, which is
\* eventually processed; a failed request of RefreshWeather is followed at
\* once by RefreshWeather again, which starts a new request, leaves loading
\* true and records no error; once a weather request is answered the
\* dashboard has its weather and is not loading; and as long as none is
\* answered the dashboard ends up loading forever.
C14_RetryLoop ==
    /\ [][/\ last'.from = "init" =>
                last'.msg = <<"Dashboard", "RefreshWeather">>
          /\ DashWeatherFailed' =>
                /\ last'.msg = <<"Dashboard", "RefreshWeather">>
                /\ last'.http = 1
                /\ Cardinality(DashWeatherInflight')
                       = Cardinality(DashWeatherInflight)
                /\ state'.dashboard_state.loading
                /\ state'.error_state = state.error_state]_vars
    /\ <>(last.from = "init")
    /\ WeatherLoaded ~>
           (state.dashboard_state.weather # None
            /\ ~state.dashboard_state.loading)
    /\ ([]~WeatherLoaded) => <>[]state.dashboard_state.loading

\* C14: a request of RefreshWeather has failed, another is in flight, the
\* dashboard is loading with no weather and no error is recorded.
C14_Witness ==
    /\ DashWeatherFailed
    /\ DashWeatherInflight # {}
    /\ state.dashboard_state.loading
    /\ state.dashboard_state.weather = None
    /\ state.error_state = None

\* C15: the dashboard is loading whenever a weather request RefreshWeather
\* started is in flight.
C15_LoadingWhileWeatherInFlight ==
    DashWeatherInflight # {} => state.dashboard_state.loading

\* The number a text of digits writes.
NumberOf(text) ==
    LET RECURSIVE value(_)
        value(k) == IF k = 0 THEN 0
                    ELSE 10 * value(k - 1) + DigitValue(text[k])
    IN  value(Len(text))

\* Whether s is written YYYY-MM-DD.
IsYMD(s) ==
    /\ Len(s) = 10
    /\ s[5] = "-" /\ s[8] = "-"
    /\ \A i \in {1, 2, 3, 4, 6, 7, 9, 10} : IsDigit(s[i])

\* Whether s, written YYYY-MM-DD, names a day of the calendar.
IsCalendarDay(s) ==
    LET y == NumberOf(SubSeq(s, 1, 4))
        m == NumberOf(SubSeq(s, 6, 7))
        d == NumberOf(SubSeq(s, 9, 10))
    IN  /\ m \in 1..12 /\ d >= 1
        /\ \/ d <= 28
           \/ d <= 30 /\ m # 2
           \/ d = 31 /\ m \in {1, 3, 5, 7, 8, 10, 12}
           \/ d = 29 /\ m = 2 /\ y % 4 = 0 /\ (y % 100 # 0 \/ y % 400 = 0)

\* The days of a date, counted so that a later date has more.
DayCount(date) == (date.year * 12 + date.month) * 31 + date.day

\* C16: is_expired(s) is true exactly when s parses as a date earlier than
\* today, and so false for today's date, a later date and a string that
\* does not parse; format_date(s) is s when s does not parse, and otherwise
\* the day in two digits, the month's three-letter name and the year, with
\* spaces between.  A string written YYYY-MM-DD parses exactly when it names
\* a day of the calendar, and then as that day.
C16_DateHelpers ==
    LET s == call.arg
        parsed == ParseFromStr(s)
    IN  /\ (call.fn \in {"is_expired", "format_date"} /\ IsYMD(s)) =>
               /\ parsed.ok <=> IsCalendarDay(s)
               /\ parsed.ok =>
                      parsed.value = Date(NumberOf(SubSeq(s, 1, 4)),
                                          NumberOf(SubSeq(s, 6, 7)),
                                          NumberOf(SubSeq(s, 9, 10)))
        /\ call.fn = "is_expired" =>
               call.result
                   <=> (parsed.ok
                        /\ DayCount(parsed.value) < DayCount(call.today))
        /\ call.fn = "format_date" =>
               IF ~parsed.ok THEN call.result = s
               ELSE LET r == call.result
                    IN  /\ Len(r) = 11
                        /\ NumberOf(SubSeq(r, 1, 2)) = parsed.value.day
                        /\ r[3] = " "
                        /\ SubSeq(r, 4, 6) = MonthAbbrev[parsed.value.month]
                        /\ r[7] = " "
                        /\ NumberOf(SubSeq(r, 8, 11)) = parsed.value.year

\* C16: is_expired was asked about today's date, written YYYY-MM-DD, and
\* answered false.
C16_Witness ==
    /\ call.fn = "is_expired"
    /\ call.arg = <<"2","0","2","4","-","0","2","-","2","9">>
    /\ call.today = Date(2024, 2, 29)
    /\ call.result = FALSE

====
